---- MODULE Spec2Model ----
(***************************************************************************)
(* fadr2chart (src/main.py): percussive onsets of the kick / snare /       *)
(* drums-other stems are collected into a chart of hits (map_to_hits) and  *)
(* every hit's time in seconds is mapped to a tick of the chart's beat     *)
(* grid under the chart's sync track (map_to_beat_time and its inner       *)
(* find_beat_time_for_seconds).                                            *)
(*                                                                         *)
(* Time.  The program computes with floats.  Here a time is an integer     *)
(* number of 1/SecondsScale seconds; every tempo of the model has a step   *)
(* duration that is a whole number of these units, so all sums, the        *)
(* comparisons and the absolute differences are the exact values.          *)
(* 0.10 s = 200, 0.50 s = 1000, 0.52 s = 1040, 0.55 s = 1100.              *)
(*                                                                         *)
(* Tempo.  sync_track maps a tick to BPM * 1000, as read_sync_track reads  *)
(* it from "tick = B 120000"; the mapper divides by 1000.                  *)
(***************************************************************************)
EXTENDS Integers, Sequences, FiniteSets, TLC

VARIABLES
    categories,            \* main: category -> assigned file, or "None"
    onsets,                \* what detect_hits returns for each category's file
    chart,                 \* map_to_hits: the chart being built
    cat_idx,               \* map_to_hits: position in categories.items()
    sync_track,            \* tick -> BPM * 1000
    hits_dict,             \* map_to_beat_time: its first argument
    hits_sorted_by_time,   \* map_to_beat_time: line 106
    hit_idx,               \* map_to_beat_time: position of the loop of line 141
    ret,                   \* map_to_beat_time: the notes produced so far
    seconds_to_find,       \* find_beat_time_for_seconds: its argument
    candidates,            \* find_beat_time_for_seconds: line 114
    current_8th,           \* find_beat_time_for_seconds: line 115
    current_bpm,           \* find_beat_time_for_seconds: line 116
    current_seconds,       \* find_beat_time_for_seconds: line 117
    pc,                    \* where the program is
    error                  \* the exception that ended the run, or "None"

vars == <<categories, onsets, chart, cat_idx, sync_track, hits_dict,
          hits_sorted_by_time, hit_idx, ret, seconds_to_find, candidates,
          current_8th, current_bpm, current_seconds, pc, error>>

-----------------------------------------------------------------------------
(* Program constants *)

\* The unit of time: a second is SecondsScale units.
SecondsScale == 2000

\* The global RESOLUTION, set when the script starts (line 281): the ticks of
\* a beat.
RESOLUTION == 192

\* Line 104: the step of the scan, an eighth note.
RESULUTION == RESOLUTION \div 2

\* Line 94: 0.1 s.
KickGap == SecondsScale \div 10

\* Line 127: the candidates kept.
CandidateCapacity == 3

\* Lines 22-27: the order of categories.items(), 'all-files' skipped.
CategoryOrder == <<"drums-other", "snare", "kick">>

Category == {CategoryOrder[i] : i \in 1..Len(CategoryOrder)}

-----------------------------------------------------------------------------
(* Bounds of the model *)

\* The passes of the while loop explored; beyond LoopGuard (below).
MaxIterations == 26

\* The onsets detect_hits returns for the kick stem, at most.
MaxKickOnsets == 3

\* The hits of a direct call of map_to_beat_time, at most.
MaxHits == 2

\* The targets of single queries: every 1/16 s up to MaxQuerySteps of them.
MaxQuerySteps == 16

-----------------------------------------------------------------------------
(* Pure helpers *)

Abs(x) == IF x < 0 THEN -x ELSE x

\* A faulty beats_to_seconds: the factor 0.5 of line 154 forgotten.
beats_to_seconds_whole(res_value, bpm) ==
    IF bpm > 0
    THEN (res_value * 60 * SecondsScale) \div (RESOLUTION * bpm)
    ELSE -((res_value * 60 * SecondsScale) \div (RESOLUTION * (-bpm)))

\* beats = (res_value / RESOLUTION) * 0.5;  seconds = beats * (1 / (bpm / 60)).
\* bpm is not 0 here (the caller raises ZeroDivisionError for it); the sign of
\* a negative bpm is kept.
beats_to_seconds(res_value, bpm) ==
    IF bpm > 0
    THEN (res_value * 60 * SecondsScale) \div (2 * RESOLUTION * bpm)
    ELSE -((res_value * 60 * SecondsScale) \div (2 * RESOLUTION * (-bpm)))

\* Insert hit x behind every hit of the sorted s whose time is <= x's.
RECURSIVE InsertByTime(_, _)
InsertByTime(s, x) ==
    IF s = <<>> THEN <<x>>
    ELSE IF s[Len(s)].time <= x.time THEN Append(s, x)
    ELSE Append(InsertByTime(SubSeq(s, 1, Len(s) - 1), x), s[Len(s)])

\* A faulty sorted: the hits left in their input order.
sorted_unsorted(s) == s

\* sorted(hits_dict, key=lambda x: x['time']): Python's sort is stable, and the
\* result of a stable sort is unique.
RECURSIVE sorted(_)
sorted(s) ==
    IF s = <<>> THEN <<>>
    ELSE InsertByTime(sorted(SubSeq(s, 1, Len(s) - 1)), s[Len(s)])

\* A faulty line 94: no kick hit is ever too close.
kick_too_close_never(category, prev_hit, hit) == FALSE

\* Line 94: category == 'kick' and prev_hit and hit - prev_hit < 0.1.
\* prev_hit is <<>> for None and <<t>> for the float t; Python's truth value
\* of a float is False for 0.0 as it is for None.
kick_too_close(category, prev_hit, hit) ==
    /\ category = "kick"
    /\ prev_hit # <<>>
    /\ prev_hit[1] # 0
    /\ hit - prev_hit[1] < KickGap

\* Lines 92-97: the hits of one category appended to the chart c.
RECURSIVE append_hits(_, _, _, _, _)
append_hits(c, category, hits, i, prev_hit) ==
    IF i > Len(hits) THEN c
    ELSE IF kick_too_close(category, prev_hit, hits[i])
         THEN append_hits(c, category, hits, i + 1, prev_hit)
         ELSE append_hits(Append(c, [instrument |-> category, time |-> hits[i]]),
                          category, hits, i + 1, <<hits[i]>>)

\* A faulty closest_of: the comparison of line 136 turned round, > for <.
RECURSIVE closest_of_farthest(_, _, _, _)
closest_of_farthest(cands, i, closest, target) ==
    IF i > Len(cands) THEN closest
    ELSE IF closest = <<>>
            \/ Abs(cands[i].seconds - target) > Abs(closest[1].seconds - target)
         THEN closest_of_farthest(cands, i + 1, <<cands[i]>>, target)
         ELSE closest_of_farthest(cands, i + 1, closest, target)

\* Lines 134-137: the first candidate of the least |seconds - seconds_to_find|.
RECURSIVE closest_of(_, _, _, _)
closest_of(cands, i, closest, target) ==
    IF i > Len(cands) THEN closest
    ELSE IF closest = <<>>
            \/ Abs(cands[i].seconds - target) < Abs(closest[1].seconds - target)
         THEN closest_of(cands, i + 1, <<cands[i]>>, target)
         ELSE closest_of(cands, i + 1, closest, target)

\* A faulty push_candidate: only the newest candidate kept.
push_candidate_newest(cands, c) == <<c>>

\* Lines 126-128.
push_candidate(cands, c) ==
    LET all == Append(cands, c)
    IN  IF Len(all) > CandidateCapacity THEN Tail(all) ELSE all

-----------------------------------------------------------------------------
(* Inputs *)

NoFiles == [c \in Category |-> "None"]

NoOnsets == [c \in Category |-> <<>>]

SeqsUpTo(S, n) == UNION {[1..k -> S] : k \in 0..n}

\* detect_hits returns librosa's onset times, the times of distinct frames in
\* ascending order: non-negative and increasing.
Increasing(T, n) ==
    {s \in SeqsUpTo(T, n) : \A i \in 1..(Len(s) - 1) : s[i] < s[i + 1]}

EmptyTempoMap == [k \in {} |-> 0]

TempoMapsOver(keys, bpms) == UNION {[K -> bpms] : K \in SUBSET keys}

\* The tempo maps of the end-to-end runs: constant 120 BPM, no tick 0, a zero
\* BPM, and a change on the grid.
MainTempoMaps ==
    { (0 :> 120000), EmptyTempoMap, (0 :> 0), (0 :> 60000) @@ (96 :> 240000) }

KickOnsetTimes == {0, 100, 200, 1000, 1100}

SnareOnsetTimes == {0, 1040}

OtherOnsetTimes == {1000}

FileOf(c) == IF c = "kick" THEN "kick-1.mp3"
             ELSE IF c = "snare" THEN "snare-1.mp3" ELSE "drums-other-1.mp3"

\* The hits map_to_beat_time is called with directly: any order, any sign.
MapHitTimes == {-500, 0, 250, 1000, 1040}

MapHits == [instrument : Category, time : MapHitTimes]

MapTempoMaps ==
    { (0 :> 120000), (0 :> 240000), EmptyTempoMap, (0 :> 0),
      (0 :> 60000) @@ (96 :> 240000) }

\* Single queries of the mapper.
QueryTimes == {-500, 100, 1040} \cup {125 * k : k \in 0..MaxQuerySteps}

QueryHits == [instrument : {"snare"}, time : QueryTimes]

BpmValues == {-120000, 0, 60000, 120000, 240000}

TempoKeys == {0, 48, 96, 192}

QueryTempoMaps == TempoMapsOver(TempoKeys, BpmValues)

\* The chart of 120 BPM that turns to 240 BPM at tick 960 (beat 5), and the
\* times of its grid ticks 864 .. 1152 and between.
ChangeAt960 == (0 :> 120000) @@ (960 :> 240000)

ChangeAt960Times == {4500, 4750, 5000, 5100, 5250, 5500}

ChangeAt960Hits == [instrument : {"snare"}, time : ChangeAt960Times]

-----------------------------------------------------------------------------
(* Initial states *)

InitLocals ==
    /\ hits_sorted_by_time = <<>>
    /\ hit_idx = 1
    /\ ret = <<>>
    /\ seconds_to_find = 0
    /\ candidates = <<>>
    /\ current_8th = 0
    /\ current_bpm = 0
    /\ current_seconds = 0
    /\ error = "None"

\* main(directory): the files categorized, the sync track read, map_to_hits
\* about to run.
InitMain ==
    /\ \E present \in SUBSET Category :
       \E k \in Increasing(KickOnsetTimes, MaxKickOnsets),
          s \in Increasing(SnareOnsetTimes, 1),
          o \in Increasing(OtherOnsetTimes, 1) :
          /\ categories = [c \in Category |->
                              IF c \in present THEN FileOf(c) ELSE "None"]
          /\ onsets = [c \in Category |->
                          IF c \notin present THEN <<>>
                          ELSE IF c = "kick" THEN k
                          ELSE IF c = "snare" THEN s ELSE o]
    /\ sync_track \in MainTempoMaps
    /\ chart = <<>>
    /\ cat_idx = 1
    /\ hits_dict = <<>>
    /\ pc = "map_to_hits"
    /\ InitLocals

\* map_to_beat_time(hits_dict, sync_track) called with hits in any order.
InitMap ==
    /\ categories = NoFiles
    /\ onsets = NoOnsets
    /\ chart = <<>>
    /\ cat_idx = 1
    /\ sync_track \in MapTempoMaps
    /\ hits_dict \in SeqsUpTo(MapHits, MaxHits)
    /\ pc = "map_to_beat_time"
    /\ InitLocals

\* map_to_beat_time called with at most one hit: one query of the mapper.
InitQuery ==
    /\ categories = NoFiles
    /\ onsets = NoOnsets
    /\ chart = <<>>
    /\ cat_idx = 1
    /\ \/ /\ sync_track \in QueryTempoMaps
          /\ hits_dict \in SeqsUpTo(QueryHits, 1)
       \/ /\ sync_track = ChangeAt960
          /\ hits_dict \in SeqsUpTo(ChangeAt960Hits, 1)
    /\ pc = "map_to_beat_time"
    /\ InitLocals

-----------------------------------------------------------------------------
(* map_to_hits *)

mapVars == <<sync_track, hits_sorted_by_time, hit_idx, ret, seconds_to_find,
             candidates, current_8th, current_bpm, current_seconds, error>>

\* One pass of the loop of line 81 over drums-other, snare, kick.
MapToHitsCategory ==
    /\ pc = "map_to_hits"
    /\ cat_idx <= Len(CategoryOrder)
    /\ LET category == CategoryOrder[cat_idx]
       IN  chart' = IF categories[category] # "None"
                    THEN append_hits(chart, category, onsets[category], 1, <<>>)
                    ELSE chart
    /\ cat_idx' = cat_idx + 1
    /\ UNCHANGED <<categories, onsets, hits_dict, pc>>
    /\ UNCHANGED mapVars

\* Line 100, and main's lines 225-227: the chart goes to map_to_beat_time.
MapToHitsReturn ==
    /\ pc = "map_to_hits"
    /\ cat_idx > Len(CategoryOrder)
    /\ hits_dict' = chart
    /\ pc' = "map_to_beat_time"
    /\ UNCHANGED <<categories, onsets, chart, cat_idx>>
    /\ UNCHANGED mapVars

-----------------------------------------------------------------------------
(* map_to_beat_time *)

hitVars == <<categories, onsets, chart, cat_idx, sync_track, hits_dict>>

findVars == <<seconds_to_find, candidates, current_8th, current_bpm,
              current_seconds>>

\* Lines 106-108 with no hit: return [].
MapToBeatTimeEmpty ==
    /\ pc = "map_to_beat_time"
    /\ sorted(hits_dict) = <<>>
    /\ hits_sorted_by_time' = sorted(hits_dict)
    /\ pc' = "returned"
    /\ UNCHANGED <<hit_idx, ret, error>>
    /\ UNCHANGED hitVars
    /\ UNCHANGED findVars

\* Lines 106-111 with hits: on to the loop of line 141.
MapToBeatTimeSort ==
    /\ pc = "map_to_beat_time"
    /\ sorted(hits_dict) # <<>>
    /\ hits_sorted_by_time' = sorted(hits_dict)
    /\ hit_idx' = 1
    /\ pc' = "find"
    /\ UNCHANGED <<ret, error>>
    /\ UNCHANGED hitVars
    /\ UNCHANGED findVars

\* Lines 142, 114-116 with no tick 0 in the sync track: sync_track[0] raises
\* KeyError, which nothing catches.
FindKeyError ==
    /\ pc = "find"
    /\ 0 \notin DOMAIN sync_track
    /\ seconds_to_find' = hits_sorted_by_time[hit_idx].time
    /\ candidates' = <<>>
    /\ current_8th' = -RESULUTION
    /\ error' = "KeyError"
    /\ pc' = "raised"
    /\ UNCHANGED <<current_bpm, current_seconds, hits_sorted_by_time, hit_idx, ret>>
    /\ UNCHANGED hitVars

\* Lines 142, 114-117.
FindBegin ==
    /\ pc = "find"
    /\ 0 \in DOMAIN sync_track
    /\ seconds_to_find' = hits_sorted_by_time[hit_idx].time
    /\ candidates' = <<>>
    /\ current_8th' = -RESULUTION
    /\ current_bpm' = sync_track[0] \div 1000
    /\ current_seconds' = 0
    /\ pc' = "while"
    /\ UNCHANGED <<hits_sorted_by_time, hit_idx, ret, error>>
    /\ UNCHANGED hitVars

Iterations == (current_8th + RESULUTION) \div RESULUTION

\* Lines 119-121 at a BPM of 0: 1 / (bpm / 60) raises ZeroDivisionError.
WhileZeroDivision ==
    /\ pc = "while"
    /\ Iterations < MaxIterations
    /\ current_8th + RESULUTION > 0
    /\ current_bpm = 0
    /\ current_8th' = current_8th + RESULUTION
    /\ error' = "ZeroDivisionError"
    /\ pc' = "raised"
    /\ UNCHANGED <<seconds_to_find, candidates, current_bpm, current_seconds,
                   hits_sorted_by_time, hit_idx, ret>>
    /\ UNCHANGED hitVars

\* Lines 119-131: one pass of the while loop.
WhileStep ==
    /\ pc = "while"
    /\ Iterations < MaxIterations
    /\ LET next_8th == current_8th + RESULUTION
           seconds  == IF next_8th > 0
                       THEN current_seconds + beats_to_seconds(RESOLUTION, current_bpm)
                       ELSE current_seconds
       IN  /\ next_8th > 0 => current_bpm # 0
           /\ current_8th' = next_8th
           /\ current_seconds' = seconds
           /\ current_bpm' = IF next_8th \in DOMAIN sync_track
                             THEN sync_track[next_8th] \div 1000
                             ELSE current_bpm
           /\ candidates' = push_candidate(candidates,
                                [eighth |-> next_8th, seconds |-> seconds])
           /\ pc' = IF seconds > seconds_to_find THEN "closest" ELSE "while"
    /\ UNCHANGED <<seconds_to_find, hits_sorted_by_time, hit_idx, ret, error>>
    /\ UNCHANGED hitVars

\* Lines 133-139 and 143-146: the closest candidate's tick becomes the note.
Closest ==
    /\ pc = "closest"
    /\ LET beat_time == closest_of(candidates, 1, <<>>, seconds_to_find)[1].eighth
           hit == hits_sorted_by_time[hit_idx]
       IN  ret' = Append(ret, [instrument |-> hit.instrument, time |-> beat_time])
    /\ hit_idx' = hit_idx + 1
    /\ pc' = IF hit_idx + 1 > Len(hits_sorted_by_time) THEN "returned" ELSE "find"
    /\ UNCHANGED <<hits_sorted_by_time, error>>
    /\ UNCHANGED hitVars
    /\ UNCHANGED findVars

-----------------------------------------------------------------------------
(* Specifications *)

NextMap ==
    \/ MapToBeatTimeEmpty
    \/ MapToBeatTimeSort
    \/ FindKeyError
    \/ FindBegin
    \/ WhileZeroDivision
    \/ WhileStep
    \/ Closest

NextMain ==
    \/ MapToHitsCategory
    \/ MapToHitsReturn
    \/ NextMap

\* main: map_to_hits, then map_to_beat_time.
Spec == InitMain /\ [][NextMain]_vars

\* map_to_beat_time on hits in any order.
SpecMap == InitMap /\ [][NextMap]_vars

\* One query of find_beat_time_for_seconds under every tempo map.
SpecQuery == InitQuery /\ [][NextMap]_vars

TypeOK ==
    /\ pc \in {"map_to_hits", "map_to_beat_time", "find", "while", "closest",
               "returned", "raised"}
    /\ error \in {"None", "KeyError", "ZeroDivisionError"}
    /\ Len(candidates) <= CandidateCapacity
    /\ Len(ret) <= Len(hits_sorted_by_time)

-----------------------------------------------------------------------------
(* What the properties speak of, stated apart from the program's steps *)

HasTick0 == 0 \in DOMAIN sync_track

PositiveTempo == \A k \in DOMAIN sync_track : sync_track[k] > 0

ConstantPositiveTempo == DOMAIN sync_track = {0} /\ sync_track[0] > 0

TicksPerBeat == RESOLUTION

StepTicks == TicksPerBeat \div 2

\* (ticks / TicksPerBeat) * (60 / bpm) seconds, bpm > 0.
SecondsOfTicks(ticks, bpm) == (ticks * 60 * SecondsScale) \div (TicksPerBeat * bpm)

\* The tempo map as a piecewise-constant function of the tick: the BPM of the
\* last change point at or before tick t.
BpmInForce(t) ==
    LET k == CHOOSE k \in DOMAIN sync_track :
                 /\ k <= t
                 /\ \A j \in DOMAIN sync_track : j <= t => j <= k
    IN  sync_track[k] \div 1000

\* Every change point of the model is a multiple of 48 ticks.
Segment == StepTicks \div 2

\* Seconds from tick 0 to tick T under the tempo map, T a multiple of Segment.
RECURSIVE IntegrateTo(_)
IntegrateTo(T) ==
    IF T <= 0 THEN 0
    ELSE IntegrateTo(T - Segment) + SecondsOfTicks(Segment, BpmInForce(T - Segment))

GridSteps == 0..MaxIterations

\* The BPM the scan holds after grid point j: that of the last change point
\* lying on a grid point up to j.
ScanBpm(j) ==
    LET k == CHOOSE k \in 0..j :
                 /\ k * StepTicks \in DOMAIN sync_track
                 /\ \A i \in 0..j : i * StepTicks \in DOMAIN sync_track => i <= k
    IN  sync_track[k * StepTicks] \div 1000

\* Elapsed seconds of grid point k as the scan accumulates them.
RECURSIVE ScanSeconds(_)
ScanSeconds(k) ==
    IF k = 0 THEN 0
    ELSE ScanSeconds(k - 1) + SecondsOfTicks(StepTicks, ScanBpm(k - 1))

\* The first grid point whose elapsed seconds exceed t: where the scan breaks.
BreakStep(t) ==
    CHOOSE n \in GridSteps :
        /\ ScanSeconds(n) > t
        /\ \A j \in 0..(n - 1) : ScanSeconds(j) <= t

\* The tick of the grid point nearest to t among all of 0 .. BreakStep(t), the
\* earliest of them on a tie.
NearestTick(t) ==
    LET n == BreakStep(t)
        k == CHOOSE k \in 0..n :
                 /\ \A j \in 0..n : Abs(ScanSeconds(k) - t) <= Abs(ScanSeconds(j) - t)
                 /\ \A j \in 0..(k - 1) : Abs(ScanSeconds(k) - t) < Abs(ScanSeconds(j) - t)
    IN  k * StepTicks

\* The longest song of the model, the shortest step (at the fastest tempo, 240
\* BPM), and the number of passes no song of that length needs at any positive
\* tempo.
MaxSongSeconds == 5500

LoopGuard == (MaxSongSeconds \div SecondsOfTicks(StepTicks, 240)) + 2

\* No run under a positive tempo map comes near the model's MaxIterations.
PositiveTempoWithinGuard ==
    (HasTick0 /\ PositiveTempo /\ pc = "while") => Iterations < LoopGuard

-----------------------------------------------------------------------------
(* Properties *)

KickTimes == LET k == SelectSeq(chart, LAMBDA h : h.instrument = "kick")
             IN  [i \in 1..Len(k) |-> k[i].time]

\* C1 (Kick dedup invariant): any two consecutive kick hits map_to_hits has
\* put on the chart are at least 0.10 s apart, also when the first onset is
\* at 0.0.
C1_KickDedup ==
    \A i \in 1..(Len(KickTimes) - 1) : KickTimes[i + 1] - KickTimes[i] >= KickGap

\* C2 (Tempo change round-trip): under a tempo map with tick 0 and positive
\* BPMs only, the time of a grid tick T, integrated from tick 0 with every
\* change point in force from its own tick, is mapped to a tick within one
\* grid step of T.
C2_TempoChangeRoundTrip ==
    (HasTick0 /\ PositiveTempo) =>
        \A i \in 1..Len(ret) : \A k \in GridSteps :
            IntegrateTo(k * StepTicks) = hits_sorted_by_time[i].time
                => Abs(ret[i].time - k * StepTicks) <= StepTicks

\* C3 (Missing tick 0 is fatal): map_to_beat_time under a tempo map without
\* tick 0 never returns and produces no notes, whatever the hits; the
\* KeyError of sync_track[0] stands for MalformedTempoMap.
C3_MissingTick0Fatal ==
    ~HasTick0 => (pc # "returned" /\ ret = <<>>)

\* C4 (Divergence guard): under any tempo map with tick 0 the search loop
\* makes at most LoopGuard passes: by then it has broken or failed.
C4_DivergenceGuard ==
    (HasTick0 /\ pc = "while") => Iterations <= LoopGuard

\* C5 (Negative target is rejected): under a tempo map with tick 0, a query
\* with a negative target never reaches the choice of a tick and no note is
\* made for it.
C5_NegativeTargetRejected ==
    HasTick0 =>
        /\ pc = "closest" => seconds_to_find >= 0
        /\ \A i \in 1..Len(ret) : hits_sorted_by_time[i].time >= 0

\* The scenario: kick onsets at 0.50 s and 0.55 s, a snare onset at 0.52 s,
\* no drums-other stem, constant 120 BPM.
Scenario ==
    /\ sync_track = (0 :> 120000)
    /\ categories["kick"] # "None" /\ onsets["kick"] = <<1000, 1100>>
    /\ categories["snare"] # "None" /\ onsets["snare"] = <<1040>>
    /\ categories["drums-other"] = "None"

\* C6 as stated (End-to-end scenario): the scenario ends with two notes whose
\* ticks are within a grid step of each other and not the same.
C6_TicksNotIdentical ==
    (Scenario /\ pc = "returned") =>
        /\ Len(ret) = 2
        /\ ret[1].time # ret[2].time
        /\ Abs(ret[1].time - ret[2].time) <= StepTicks

\* C6 as amended (End-to-end scenario): the kick at 0.55 s is dropped before
\* the mapping, and the scenario ends with two notes, the kick then the
\* snare, both at tick 192.
C6_SameTick ==
    (Scenario /\ pc \notin {"map_to_hits", "map_to_beat_time"}) =>
        /\ hits_dict = << [instrument |-> "snare", time |-> 1040],
                          [instrument |-> "kick", time |-> 1000] >>
        /\ pc = "returned" =>
              ret = << [instrument |-> "kick", time |-> 2 * StepTicks],
                       [instrument |-> "snare", time |-> 2 * StepTicks] >>

C6_Witness == Scenario /\ pc = "returned" /\ Len(ret) = 2

\* C7 (Exact grid round-trip at constant tempo): under {0: bpm}, bpm > 0, the
\* target k * (StepTicks/TicksPerBeat) * (60/bpm) gets the tick k * StepTicks,
\* for every k >= 0.
C7_ExactGridRoundTrip ==
    ConstantPositiveTempo =>
        \A i \in 1..Len(ret) : \A k \in GridSteps :
            hits_sorted_by_time[i].time
                    = k * SecondsOfTicks(StepTicks, sync_track[0] \div 1000)
                => ret[i].time = k * StepTicks

C7_Witness ==
    /\ sync_track = (0 :> 240000)
    /\ pc = "returned"
    /\ Len(ret) = 1
    /\ hits_sorted_by_time[1].time = 5 * SecondsOfTicks(StepTicks, 240)
    /\ ret[1].time = 5 * StepTicks

\* The one stable ascending order of hits by time, as a map from output
\* position to input position.
IsStableOrder(p, hits) ==
    /\ \A i, j \in DOMAIN p : i # j => p[i] # p[j]
    /\ \A i, j \in DOMAIN p :
          i < j => \/ hits[p[i]].time < hits[p[j]].time
                   \/ hits[p[i]].time = hits[p[j]].time /\ p[i] < p[j]

\* C8 (Orchestration ordering): when map_to_beat_time returns there is one
\* note per hit, in the stable ascending order of the hits' times, each with
\* its hit's instrument and the mapper's tick of its hit's time; with no hit
\* it returns no note and no error.
C8_OrchestrationOrdering ==
    /\ pc = "returned" =>
          /\ Len(ret) = Len(hits_dict)
          /\ \E p \in [1..Len(hits_dict) -> 1..Len(hits_dict)] :
                /\ IsStableOrder(p, hits_dict)
                /\ \A i \in 1..Len(ret) :
                      /\ ret[i].instrument = hits_dict[p[i]].instrument
                      /\ ret[i].time = NearestTick(hits_dict[p[i]].time)
    /\ hits_dict = <<>> =>
          pc \in {"map_to_beat_time", "returned"} /\ error = "None" /\ ret = <<>>

C8_Witness ==
    /\ pc = "returned"
    /\ Len(ret) = 2
    /\ hits_dict[1].time > hits_dict[2].time
    /\ hits_dict[2].time > 0
    /\ ret[1].time < ret[2].time

\* C9 (Mapper monotonicity): under a constant positive BPM the notes of hits
\* at times 0 <= t1 <= t2 have ticks tick(t1) <= tick(t2), so the ticks of
\* the notes do not decrease in output order.
C9_MapperMonotone ==
    (ConstantPositiveTempo /\ \A h \in 1..Len(hits_dict) : hits_dict[h].time >= 0) =>
        \A i, j \in 1..Len(ret) : i < j => ret[i].time <= ret[j].time

C9_Witness ==
    /\ ConstantPositiveTempo
    /\ pc = "returned"
    /\ Len(ret) = 2
    /\ hits_dict[1].time > hits_dict[2].time
    /\ hits_dict[2].time >= 0
    /\ ret[1].time < ret[2].time

\* C10 (Bounded window suffices): under a tempo map with tick 0 and positive
\* BPMs, for a target >= 0 the tick chosen from the candidates kept is that
\* of the nearest of all grid points scanned up to the break, the earliest on
\* a tie.
C10_BoundedWindowSuffices ==
    (HasTick0 /\ PositiveTempo) =>
        \A i \in 1..Len(ret) :
            hits_sorted_by_time[i].time >= 0
                => ret[i].time = NearestTick(hits_sorted_by_time[i].time)

\* A query whose nearest grid point is not the one the scan broke at, after
\* more passes than candidates are kept.
C10_Witness ==
    /\ HasTick0 /\ PositiveTempo
    /\ pc = "returned"
    /\ Len(ret) = 1
    /\ hits_sorted_by_time[1].time >= 0
    /\ BreakStep(hits_sorted_by_time[1].time) > CandidateCapacity
    /\ ret[1].time = (BreakStep(hits_sorted_by_time[1].time) - 1) * StepTicks

====
